---- MODULE Spec2Model ----
(***************************************************************************)
(* Model of booster.py: the GravitationalBit encodable unit, the           *)
(* GravitationalMemory fragment store with its keyword index and           *)
(* retrieval, the module-level Allpath interface (init/load/ask/stats)     *)
(* and the command-line entry point.                                       *)
(*                                                                         *)
(* Conventions.  A Python str is the sequence of its characters, each a    *)
(* one-character string; a character outside ASCII is written by its code  *)
(* point ("U+0130").                                                       *)
(* Python ints are unbounded (an md5 digest has 128 bits, a unit of level  *)
(* 15 has 1240 slots): the integer a unit encodes, decodes or verifies is  *)
(* a binary numeral, the sequence of its bits, least significant first     *)
(* and without leading zeros (zero is the empty sequence), so that two     *)
(* numerals are equal exactly when the integers are.  Counters and sizes   *)
(* are plain integers.  Floats (energy, phase, dt) are fixed-point         *)
(* integers: energy in 1e-3, dt in 1e-2, phase in 1e-5 rad.                *)
(* OrbitalState.occupied is 0/1 (Python False == 0, and encode stores      *)
(* the int (value >> i) & 1).                                              *)
(***************************************************************************)
EXTENDS Integers, Sequences, FiniteSets, TLC

VARIABLES
    unit,       \* a GravitationalBit object used on its own
    encoded,    \* argument of the last encode() on unit (-1: none yet)
    uret,       \* what the last operation on unit returned
    memory,     \* a GravitationalMemory object used on its own
    mret,       \* what the last operation on memory returned
    booster,    \* the module global _booster (None or an LLMRAGBooster)
    ret,        \* what the last module-level function returned
    cli,        \* the command-line driver: calls issued, last output
    writer,     \* a store_chunk call on memory taken statement by statement
    asking      \* the ask call waiting for requests.post to return (or None)

vars == <<unit, encoded, uret, memory, mret, booster, ret, cli, writer, asking>>

None == [none |-> TRUE]

(***************************************************************************)
(* Bounds of the model.                                                    *)
(***************************************************************************)
MaxLevel == 2          \* largest compression level tried besides the default
MaxValue == 8          \* integers 0..MaxValue are encoded, and two wider ones
MaxOps == 4            \* cap on a unit's operation_count

\* Levels a unit or a store is constructed with, non-positive ones included.
Levels == -1 .. MaxLevel
Values == (0 .. MaxValue) \cup {37, 16421}
\* Outcomes of random() * 2 * pi, in 1e-5 rad (random() is in [0, 1)).
RandomPhases == {0, 314159}
\* dt arguments of propagate, in 1e-2 (the default 0.01 is 1).
Dts == {1, 5}

(***************************************************************************)
(* Integer helpers (Python int operators).                                 *)
(***************************************************************************)
Min(a, b) == IF a <= b THEN a ELSE b

RECURSIVE BitsOf(_)
\* The numeral of the integer n >= 0.
BitsOf(n) == IF n = 0 THEN <<>> ELSE <<n % 2>> \o BitsOf(n \div 2)

\* (value >> i) & 1
BitAt(value, i) == IF i < Len(value) THEN value[i + 1] ELSE 0

\* A sequence of bits, least significant first, without its leading zeros.
TrimZeros(bits) ==
    LET ones == {i \in 1 .. Len(bits) : bits[i] = 1} IN
    IF ones = {} THEN <<>>
    ELSE SubSeq(bits, 1, CHOOSE i \in ones : \A j \in ones : j <= i)

\* value % (2 ** k), k >= 0
ModPow2(value, k) == TrimZeros(SubSeq(value, 1, Min(k, Len(value))))

(***************************************************************************)
(* GravitationalBit                                                        *)
(***************************************************************************)
TwoPi == 628318        \* 2 * pi in 1e-5 rad
RydbergMilli == 13600  \* 13.6 in 1e-3
NucleusField == 1
DefaultDt == 1         \* 0.01 in 1e-2

\* energy = -13.6 / (n * n), in 1e-3
Energy(n) == -(RydbergMilli \div (n * n))

OrbitalState(n, l, m) ==
    [n |-> n, l |-> l, m |-> m, occupied |-> 0, energy |-> Energy(n), phase |-> 0]

\* Mutant of SlotsOfL: for m in range(-l, l)
SlotsOfLShort(n, l) == [k \in 1 .. (2 * l) |-> OrbitalState(n, l, k - 1 - l)]

\* for m in range(-l, l + 1)
SlotsOfL(n, l) == [k \in 1 .. (2 * l + 1) |-> OrbitalState(n, l, k - 1 - l)]

RECURSIVE SlotsOfN(_, _)
\* for l in range(n), from l upward
SlotsOfN(n, l) ==
    IF l >= n THEN <<>> ELSE SlotsOfL(n, l) \o SlotsOfN(n, l + 1)

RECURSIVE SlotsFrom(_, _)
\* for n in range(1, n_max + 1), from n upward
SlotsFrom(n, n_max) ==
    IF n > n_max THEN <<>> ELSE SlotsOfN(n, 0) \o SlotsFrom(n + 1, n_max)

\* The state bank GravitationalBit.__init__ generates.
StateBank(compression_level) == SlotsFrom(1, compression_level)

\* GravitationalBit(compression_level)
NewBit(compression_level) ==
    [n_max |-> compression_level,
     nucleus_field |-> NucleusField,
     states |-> StateBank(compression_level),
     operation_count |-> 0]

\* Slots (1-based) that encode(value) occupies: bit i-1 of value is 1.
OccupiedSlots(nslots, value) ==
    {i \in 1 .. nslots : BitAt(value, i - 1) = 1}

\* Mutant of Encode: a slot occupied by an earlier encode stays occupied.
EncodeKeepsOld(bit, value, rnd) ==
    [bit EXCEPT
        !.states = [i \in 1 .. Len(bit.states) |->
            LET new == BitAt(value, i - 1) IN
            [bit.states[i] EXCEPT
                !.occupied = IF @ = 1 THEN 1 ELSE new,
                !.phase = IF new = 1 THEN rnd[i] ELSE @]],
        !.operation_count = @ + 1]

\* encode(value); rnd[i] is the outcome of the random() drawn for slot i,
\* which the code draws only when the slot becomes occupied.
Encode(bit, value, rnd) ==
    [bit EXCEPT
        !.states = [i \in 1 .. Len(bit.states) |->
            LET occ == BitAt(value, i - 1) IN
            [bit.states[i] EXCEPT
                !.occupied = occ,
                !.phase = IF occ = 1 THEN rnd[i] ELSE 0]],
        !.operation_count = @ + 1]

\* The integer decode() returns: bit i is set for every occupied slot i.
DecodeValue(bit) ==
    TrimZeros([i \in 1 .. Len(bit.states) |-> IF bit.states[i].occupied = 1 THEN 1 ELSE 0])

\* The unit after decode(): only the operation counter moves.
Counted(bit) == [bit EXCEPT !.operation_count = @ + 1]

\* Mutant of Propagate: a slot whose phase wraps past zero is vacated.
PropagateVacates(bit, dt) ==
    [bit EXCEPT
        !.states = [i \in 1 .. Len(bit.states) |->
            IF bit.states[i].occupied = 1
            THEN LET moved == bit.states[i].phase
                                + bit.states[i].energy * dt * bit.nucleus_field IN
                 [bit.states[i] EXCEPT
                    !.phase = moved % TwoPi,
                    !.occupied = IF moved < 0 THEN 0 ELSE 1]
            ELSE bit.states[i]],
        !.operation_count = @ + 1]

\* propagate(dt)
Propagate(bit, dt) ==
    [bit EXCEPT
        !.states = [i \in 1 .. Len(bit.states) |->
            IF bit.states[i].occupied = 1
            THEN [bit.states[i] EXCEPT
                    !.phase = (@ + bit.states[i].energy * dt * bit.nucleus_field) % TwoPi]
            ELSE bit.states[i]],
        !.operation_count = @ + 1]

\* verify_integrity(original_value): decode() == original_value
VerifyIntegrity(bit, original_value) == DecodeValue(bit) = original_value

(***************************************************************************)
(* A unit used on its own.                                                 *)
(***************************************************************************)
UnitInit ==
    /\ \E L \in Levels : unit = NewBit(L)
    /\ encoded = -1
    /\ uret = [op |-> "new", value |-> 0, ok |-> TRUE]

\* encode(v), decode(), propagate(dt) and verify_integrity(v) for an integer v:
\* uret.value is the numeral a decode returned, or the integer verified.
UnitEncode(v) ==
    /\ UNCHANGED <<memory, mret, booster, ret, cli, writer, asking>>
    /\ unit.operation_count < MaxOps
    /\ \E rnd \in [OccupiedSlots(Len(unit.states), BitsOf(v)) -> RandomPhases] :
          unit' = Encode(unit, BitsOf(v), rnd)
    /\ encoded' = v
    /\ uret' = [op |-> "encode", value |-> 0, ok |-> TRUE]

UnitDecode ==
    /\ UNCHANGED <<memory, mret, booster, ret, cli, writer, asking>>
    /\ unit.operation_count < MaxOps
    /\ unit' = Counted(unit)
    /\ uret' = [op |-> "decode", value |-> DecodeValue(unit), ok |-> TRUE]
    /\ UNCHANGED encoded

UnitPropagate(dt) ==
    /\ UNCHANGED <<memory, mret, booster, ret, cli, writer, asking>>
    /\ unit.operation_count < MaxOps
    /\ unit' = Propagate(unit, dt)
    /\ uret' = [op |-> "propagate", value |-> 0, ok |-> TRUE]
    /\ UNCHANGED encoded

UnitVerify(v) ==
    /\ UNCHANGED <<memory, mret, booster, ret, cli, writer, asking>>
    /\ unit.operation_count < MaxOps
    /\ unit' = Counted(unit)
    /\ uret' = [op |-> "verify", value |-> v, ok |-> VerifyIntegrity(unit, BitsOf(v))]
    /\ UNCHANGED encoded

UnitNext ==
    \/ \E v \in Values : UnitEncode(v)
    \/ UnitDecode
    \/ \E dt \in Dts : UnitPropagate(dt)
    \/ \E v \in Values : UnitVerify(v)

(***************************************************************************)
(* Python str and dict helpers.                                            *)
(***************************************************************************)
LowerChars ==
    <<"a", "b", "c", "d", "e", "f", "g", "h", "i", "j", "k", "l", "m",
      "n", "o", "p", "q", "r", "s", "t", "u", "v", "w", "x", "y", "z">>
UpperChars ==
    <<"A", "B", "C", "D", "E", "F", "G", "H", "I", "J", "K", "L", "M",
      "N", "O", "P", "Q", "R", "S", "T", "U", "V", "W", "X", "Y", "Z">>
HexChars ==
    <<"0", "1", "2", "3", "4", "5", "6", "7", "8", "9", "a", "b", "c", "d", "e", "f">>
\* The characters str.split() treats as separators, as far as texts here use them.
Whitespace == {" ", "\n", "\t"}
\* '.,!?;:"\'()[]{}'
StripChars == {".", ",", "!", "?", ";", ":", "\"", "'", "(", ")", "[", "]", "{", "}"}
\* LATIN CAPITAL LETTER I WITH DOT ABOVE, the one character str.lower() turns
\* into two, and COMBINING DOT ABOVE, the second of the two.
CapitalIDot == "U+0130"
CombiningDot == "U+0307"
OtherChars ==
    <<"0", "1", "2", "3", "4", "5", "6", "7", "8", "9",
      " ", "\n", "\t", ".", ",", "!", "?", ";", ":", "\"", "'", "(", ")", "[", "]", "{", "}", "-",
      CapitalIDot, CombiningDot>>
\* The code points of OtherChars, in the same order.
OtherCodes ==
    <<48, 49, 50, 51, 52, 53, 54, 55, 56, 57,
      32, 10, 9, 46, 44, 33, 63, 59, 58, 34, 39, 40, 41, 91, 93, 123, 125, 45,
      304, 775>>
\* Every character a text may hold, each once.
Alphabet == LowerChars \o UpperChars \o OtherChars

\* The place of c in a sequence without repetitions that holds it.
IndexIn(seq, c) == CHOOSE i \in 1 .. Len(seq) : seq[i] = c

\* ord(c): "a" is 97, "A" is 65.
CharCode ==
    [c \in {Alphabet[i] : i \in 1 .. Len(Alphabet)} |->
        LET place == IndexIn(Alphabet, c) IN
        IF place <= Len(LowerChars) THEN 96 + place
        ELSE IF place <= Len(LowerChars) + Len(UpperChars) THEN 64 + (place - Len(LowerChars))
        ELSE OtherCodes[place - Len(LowerChars) - Len(UpperChars)]]
HexValue == [c \in {HexChars[i] : i \in 1 .. Len(HexChars)} |-> IndexIn(HexChars, c) - 1]

RECURSIVE Join(_, _)
\* sep.join(parts): the first half of the parts joined, sep, the second half
Join(sep, parts) ==
    IF parts = <<>> THEN <<>>
    ELSE IF Len(parts) = 1 THEN parts[1]
    ELSE LET h == Len(parts) \div 2 IN
         Join(sep, SubSeq(parts, 1, h)) \o sep \o Join(sep, SubSeq(parts, h + 1, Len(parts)))

\* str.lower() of one character: the characters it becomes.  A capital
\* letter becomes its small letter, U+0130 becomes "i" and U+0307, and
\* every other character here stays.
LowerChar ==
    [c \in {Alphabet[i] : i \in 1 .. Len(Alphabet)} |->
        IF CharCode[c] >= 65 /\ CharCode[c] <= 90 THEN <<LowerChars[CharCode[c] - 64]>>
        ELSE IF c = CapitalIDot THEN <<"i", CombiningDot>>
        ELSE <<c>>]
\* str.lower(): the lowered characters in turn; the result may be longer than s
Lower(s) == Join(<<>>, SubSeq([i \in 1 .. Len(s) |-> LowerChar[s[i]]], 1, Len(s)))

\* str.strip(chars)
Strip(s, chars) ==
    LET keep == {i \in 1 .. Len(s) : s[i] \notin chars} IN
    IF keep = {} THEN <<>>
    ELSE SubSeq(s, CHOOSE i \in keep : \A j \in keep : i <= j,
                   CHOOSE i \in keep : \A j \in keep : i >= j)

\* str.split(): the maximal runs of non-whitespace characters, each from
\* the place where it starts to the place where it ends.
Split(s) ==
    LET n == Len(s)
        starts == SelectSeq([i \in 1 .. n |-> i],
                            LAMBDA i : s[i] \notin Whitespace
                                        /\ (i = 1 \/ s[i - 1] \in Whitespace))
        ends == SelectSeq([i \in 1 .. n |-> i],
                          LAMBDA i : s[i] \notin Whitespace
                                        /\ (i = n \/ s[i + 1] \in Whitespace))
    IN  [k \in 1 .. Len(starts) |-> SubSeq(s, starts[k], ends[k])]

\* Mutant of Slice: parts[i : i + n + 1]
SliceLong(parts, i, n) == SubSeq(parts, i + 1, Min(i + n + 1, Len(parts)))

\* parts[i : i + n] with i 0-based
Slice(parts, i, n) == SubSeq(parts, i + 1, Min(i + n, Len(parts)))

\* A dict is the sequence of its (key, value) items in insertion order.
DictKeys(d) == [i \in 1 .. Len(d) |-> d[i].key]
DictHas(d, k) == \E i \in 1 .. Len(d) : d[i].key = k
DictGet(d, k) == d[CHOOSE i \in 1 .. Len(d) : d[i].key = k].value
\* d[k] = v: a new key is appended, an existing key keeps its position
DictSet(d, k, v) ==
    IF DictHas(d, k)
    THEN [i \in 1 .. Len(d) |-> IF d[i].key = k THEN [key |-> k, value |-> v] ELSE d[i]]
    ELSE Append(d, [key |-> k, value |-> v])

(***************************************************************************)
(* Inputs: words, fragment texts, documents and queries.                   *)
(***************************************************************************)
MaxStores == 2         \* cap on a store's total_chunks

Sp == <<" ">>
W_lazy == <<"l", "a", "z", "y">>
W_brown == <<"b", "r", "o", "w", "n">>
W_quick == <<"q", "u", "i", "c", "k">>
W_the == <<"t", "h", "e">>
W_fox_dot == <<"f", "o", "x", ".">>
W_Lazy_comma == <<"L", "a", "z", "y", ",">>
\* three characters that str.lower() turns into four
W_Iyi == <<CapitalIDot, "y", "i">>

T_lazy_brown == W_lazy \o Sp \o W_brown
T_quick_brown == W_quick \o Sp \o W_brown
T_Lazy_lazy_Iyi == W_Lazy_comma \o Sp \o W_lazy \o Sp \o W_Iyi

\* chunk_id and text arguments of direct store_chunk calls
ChunkIds == {<<"a">>, <<"b">>}
ChunkTexts == {T_lazy_brown, T_quick_brown, T_Lazy_lazy_Iyi}

\* The defaults of store_document's chunk_size and of retrieve's top_k.
DefaultChunkSize == 200
DefaultTopK == 8

\* text and chunk_size arguments of store_document
Docs ==
    {<<>>,
     <<" ", "\n">>,
     T_lazy_brown \o Sp \o T_quick_brown,
     W_brown \o Sp \o W_brown,
     W_the \o <<" ", " ">> \o W_fox_dot \o <<"\n">> \o W_quick}
ChunkSizes == {1, 2}
\* text arguments of load
ApiDocs == {<<>>, T_lazy_brown, W_the \o <<" ", " ">> \o W_fox_dot \o <<"\n">> \o W_quick}

\* Outcomes of the random() calls of a store's encode(); the unit's own
\* specification explores the others (no store operation reads a phase).
StoreDraws == {314159}

\* query and top_k arguments of retrieve_relevant_context
Queries ==
    {W_brown,
     W_quick \o Sp \o W_lazy,
     W_Lazy_comma \o Sp \o W_brown,
     W_the \o Sp \o W_fox_dot,
     W_Iyi,
     W_the}
TopKs == {0, 1, 2}

\* The document of test_compression_performance (test.py).
Sentence1 ==
    <<"A", "r", "t", "i", "f", "i", "c", "i", "a", "l", " ", "I", "n", "t",
      "e", "l", "l", "i", "g", "e", "n", "c", "e", " ", "r", "e", "p", "r",
      "e", "s", "e", "n", "t", "s", " ", "a", " ", "f", "u", "n", "d", "a",
      "m", "e", "n", "t", "a", "l", " ", "t", "r", "a", "n", "s", "f", "o",
      "r", "m", "a", "t", "i", "o", "n", " ", "i", "n", " ", "c", "o", "m",
      "p", "u", "t", "i", "n", "g", ".">>
Sentence2 ==
    <<"M", "a", "c", "h", "i", "n", "e", " ", "l", "e", "a", "r", "n", "i",
      "n", "g", " ", "a", "l", "g", "o", "r", "i", "t", "h", "m", "s", " ",
      "e", "n", "a", "b", "l", "e", " ", "s", "y", "s", "t", "e", "m", "s",
      " ", "t", "o", " ", "l", "e", "a", "r", "n", " ", "p", "a", "t", "t",
      "e", "r", "n", "s", " ", "f", "r", "o", "m", " ", "d", "a", "t", "a",
      ".">>
Sentence3 ==
    <<"D", "e", "e", "p", " ", "n", "e", "u", "r", "a", "l", " ", "n", "e",
      "t", "w", "o", "r", "k", "s", " ", "w", "i", "t", "h", " ", "m", "u",
      "l", "t", "i", "p", "l", "e", " ", "l", "a", "y", "e", "r", "s", " ",
      "p", "r", "o", "c", "e", "s", "s", " ", "c", "o", "m", "p", "l", "e",
      "x", " ", "i", "n", "f", "o", "r", "m", "a", "t", "i", "o", "n", ".">>
Sentence4 ==
    <<"N", "a", "t", "u", "r", "a", "l", " ", "L", "a", "n", "g", "u", "a",
      "g", "e", " ", "P", "r", "o", "c", "e", "s", "s", "i", "n", "g", " ",
      "a", "l", "l", "o", "w", "s", " ", "c", "o", "m", "p", "u", "t", "e",
      "r", "s", " ", "t", "o", " ", "u", "n", "d", "e", "r", "s", "t", "a",
      "n", "d", " ", "h", "u", "m", "a", "n", " ", "c", "o", "m", "m", "u",
      "n", "i", "c", "a", "t", "i", "o", "n", ".">>
Sentence5 ==
    <<"C", "o", "m", "p", "u", "t", "e", "r", " ", "V", "i", "s", "i", "o",
      "n", " ", "s", "y", "s", "t", "e", "m", "s", " ", "i", "n", "t", "e",
      "r", "p", "r", "e", "t", " ", "a", "n", "d", " ", "a", "n", "a", "l",
      "y", "z", "e", " ", "v", "i", "s", "u", "a", "l", " ", "i", "n", "f",
      "o", "r", "m", "a", "t", "i", "o", "n", ".">>
Sentence6 ==
    <<"R", "e", "i", "n", "f", "o", "r", "c", "e", "m", "e", "n", "t", " ",
      "L", "e", "a", "r", "n", "i", "n", "g", " ", "t", "r", "a", "i", "n",
      "s", " ", "a", "g", "e", "n", "t", "s", " ", "t", "h", "r", "o", "u",
      "g", "h", " ", "e", "n", "v", "i", "r", "o", "n", "m", "e", "n", "t",
      "a", "l", " ", "i", "n", "t", "e", "r", "a", "c", "t", "i", "o", "n",
      ".">>
\* One line of base_text: a newline, the indentation and the sentence.
TextLine(sentence) == <<"\n", " ", " ", " ", " ">> \o sentence
\* base_text: the six lines and the indentation of the closing quotes.
BaseText ==
    TextLine(Sentence1) \o TextLine(Sentence2) \o TextLine(Sentence3)
        \o TextLine(Sentence4) \o TextLine(Sentence5) \o TextLine(Sentence6)
        \o TextLine(<<>>)
RECURSIVE Repeat(_, _)
\* s * k
Repeat(s, k) == IF k <= 0 THEN <<>> ELSE s \o Repeat(s, k - 1)
\* (base_text * k).strip(): the repetition without the whitespace the
\* first line starts with and the last one ends with.
LargeDoc(k) ==
    LET body == Repeat(BaseText, k) IN SubSeq(body, 6, Len(body) - 5)
\* How many times base_text is repeated: 100 in the test (5100 words), and
\* fewer for documents of 2040 words and more.
ProseRepeats == {40, 55, 70, 85, 100}

(***************************************************************************)
(* hashlib.md5 (RFC 1321).  A 32-bit word is the pair of its high and low  *)
(* 16 bits; bytes are integers 0..255.                                     *)
(***************************************************************************)
\* a & b for 0 <= a, b < 16
AndNibble ==
    [a \in 0 .. 15 |-> [b \in 0 .. 15 |->
        ((a % 2) * (b % 2)) + 2 * (((a \div 2) % 2) * ((b \div 2) % 2))
            + 4 * (((a \div 4) % 2) * ((b \div 4) % 2)) + 8 * ((a \div 8) * (b \div 8))]]

RECURSIVE And16(_, _)
\* a & b, four bits at a time; then a | b, a ^ b and ~a on 16 bits
And16(a, b) ==
    IF a = 0 \/ b = 0 THEN 0
    ELSE AndNibble[a % 16][b % 16] + 16 * And16(a \div 16, b \div 16)
Or16(a, b) == a + b - And16(a, b)
Xor16(a, b) == a + b - 2 * And16(a, b)
Not16(a) == 65535 - a

\* A 32-bit word is <<high 16 bits, low 16 bits>>.
\* (x + y) mod 2^32
WordAdd(x, y) ==
    <<(x[1] + y[1] + ((x[2] + y[2]) \div 65536)) % 65536, (x[2] + y[2]) % 65536>>
\* x rotated left by s bits, 0 <= s < 32
WordRotl(x, s) ==
    LET hi == IF s >= 16 THEN x[2] ELSE x[1]
        lo == IF s >= 16 THEN x[1] ELSE x[2]
        keep == 2 ^ (16 - (s % 16))
    IN  <<(hi % keep) * (2 ^ (s % 16)) + (lo \div keep),
          (lo % keep) * (2 ^ (s % 16)) + (hi \div keep)>>

\* The sine table of MD5: floor(2^32 * abs(sin(i + 1))), i = 0 .. 63
Md5K ==
    <<
     <<55146, 42104>>, <<59591, 46934>>, <<9248, 28891>>, <<49597, 52974>>,
     <<62844, 4015>>, <<18311, 50730>>, <<43056, 17939>>, <<64838, 38145>>,
     <<27008, 39128>>, <<35652, 63407>>, <<65535, 23473>>, <<35164, 55230>>,
     <<27536, 4386>>, <<64920, 29075>>, <<42617, 17294>>, <<18868, 2081>>,
     <<63006, 9570>>, <<49216, 45888>>, <<9822, 23121>>, <<59830, 51114>>,
     <<54831, 4189>>, <<580, 5203>>, <<55457, 59009>>, <<59347, 64456>>,
     <<8673, 52710>>, <<49975, 2006>>, <<62677, 3463>>, <<17754, 5357>>,
     <<43491, 59653>>, <<64751, 41976>>, <<26479, 729>>, <<36138, 19594>>,
     <<65530, 14658>>, <<34673, 63105>>, <<28061, 24866>>, <<64997, 14348>>,
     <<42174, 59972>>, <<19422, 53161>>, <<63163, 19296>>, <<48831, 48240>>,
     <<10395, 32454>>, <<60065, 10234>>, <<54511, 12421>>, <<1160, 7429>>,
     <<55764, 53305>>, <<59099, 39397>>, <<8098, 31992>>, <<50348, 22117>>,
     <<62505, 8772>>, <<17194, 65431>>, <<43924, 9127>>, <<64659, 41017>>,
     <<25947, 22979>>, <<36620, 52370>>, <<65519, 62589>>, <<34180, 24017>>,
     <<28584, 32335>>, <<65068, 59104>>, <<41729, 17172>>, <<19976, 4513>>,
     <<63315, 32386>>, <<48442, 62005>>, <<10967, 53947>>, <<60294, 54161>>>>
\* The per-round shift amounts of MD5
Md5S ==
    <<
     7, 12, 17, 22, 7, 12, 17, 22, 7, 12, 17, 22, 7, 12, 17, 22,
     5, 9, 14, 20, 5, 9, 14, 20, 5, 9, 14, 20, 5, 9, 14, 20,
     4, 11, 16, 23, 4, 11, 16, 23, 4, 11, 16, 23, 4, 11, 16, 23,
     6, 10, 15, 21, 6, 10, 15, 21, 6, 10, 15, 21, 6, 10, 15, 21>>
\* The initial digest state of MD5: A, B, C, D
Md5InitState ==
    <<<<26437, 8961>>, <<61389, 43913>>, <<39098, 56574>>, <<4146, 21622>>>>

\* Byte i (1-based) of the padded message: the bytes, 0x80, zeros up to 56
\* mod 64, and the length in bits as 8 bytes, least significant first.
Md5PaddedLen(n) == (((n + 8) \div 64) + 1) * 64
Md5PaddedByte(bytes, i) ==
    LET n == Len(bytes)
        j == i - (Md5PaddedLen(n) - 8)
    IN  IF i <= n THEN bytes[i]
        ELSE IF i = n + 1 THEN 128
        ELSE IF j = 1 THEN (8 * n) % 256
        ELSE IF j = 2 THEN ((8 * n) \div 256) % 256
        ELSE IF j = 3 THEN ((8 * n) \div 65536) % 256
        ELSE IF j = 4 THEN (8 * n) \div 16777216
        ELSE 0

\* Word g (0 .. 15) of block b (0-based) of the padded message, little-endian.
Md5Word(bytes, b, g) ==
    LET at == 64 * b + 4 * g IN
    <<Md5PaddedByte(bytes, at + 3) + 256 * Md5PaddedByte(bytes, at + 4),
      Md5PaddedByte(bytes, at + 1) + 256 * Md5PaddedByte(bytes, at + 2)>>

\* The round function of operation i (0 .. 63) on 16 bits of B, C and D.
Md5F(i, b, c, d) ==
    IF i < 16 THEN Or16(And16(b, c), And16(Not16(b), d))
    ELSE IF i < 32 THEN Or16(And16(d, b), And16(Not16(d), c))
    ELSE IF i < 48 THEN Xor16(Xor16(b, c), d)
    ELSE Xor16(c, Or16(b, Not16(d)))

\* The message word operation i takes.
Md5G(i) ==
    IF i < 16 THEN i
    ELSE IF i < 32 THEN (5 * i + 1) % 16
    ELSE IF i < 48 THEN (3 * i + 5) % 16
    ELSE (7 * i) % 16

\* One of the 64 operations of a block: st is <<A, B, C, D>>, m the 16 words.
Md5Op(st, m, i) ==
    <<st[4],
      WordAdd(st[2],
              WordRotl(WordAdd(WordAdd(<<Md5F(i, st[2][1], st[3][1], st[4][1]),
                                         Md5F(i, st[2][2], st[3][2], st[4][2])>>,
                                       st[1]),
                               WordAdd(Md5K[i + 1], m[Md5G(i) + 1])),
                       Md5S[i + 1])),
      st[2],
      st[3]>>

RECURSIVE Md5Ops(_, _, _, _)
\* The operations first .. last of a block, in order; the range is halved so
\* that the evaluation nests to a depth of 6 instead of 64.
Md5Ops(st, m, first, last) ==
    IF first = last THEN Md5Op(st, m, first)
    ELSE CHOOSE out \in {Md5Ops(half, m, ((first + last) \div 2) + 1, last) :
                          half \in {Md5Ops(st, m, first, (first + last) \div 2)}} : TRUE

\* The digest state st with the outcome of a block's operations added.
Md5Add(st, out) ==
    <<WordAdd(st[1], out[1]), WordAdd(st[2], out[2]),
      WordAdd(st[3], out[3]), WordAdd(st[4], out[4])>>

\* The digest state after block b (0-based) of the padded message.
Md5Block(st, bytes, b) ==
    Md5Add(st, Md5Ops(st, [g \in 1 .. 16 |-> Md5Word(bytes, b, g - 1)], 0, 63))

RECURSIVE Md5Blocks(_, _, _, _)
\* The blocks first .. last of the padded message, in order, by halves.
Md5Blocks(st, bytes, first, last) ==
    IF first = last THEN Md5Block(st, bytes, first)
    ELSE CHOOSE out \in {Md5Blocks(half, bytes, ((first + last) \div 2) + 1, last) :
                          half \in {Md5Blocks(st, bytes, first, (first + last) \div 2)}} : TRUE

\* A byte as two hex digits, and a word's bytes least significant first.
HexOfByte(x) == <<HexChars[(x \div 16) + 1], HexChars[(x % 16) + 1]>>
HexOfWord(w) ==
    HexOfByte(w[2] % 256) \o HexOfByte(w[2] \div 256)
        \o HexOfByte(w[1] % 256) \o HexOfByte(w[1] \div 256)

\* The digest state as 32 hex digits: A, B, C and D in turn.
HexOfState(st) ==
    HexOfWord(st[1]) \o HexOfWord(st[2]) \o HexOfWord(st[3]) \o HexOfWord(st[4])

\* hashlib.md5(bytes).hexdigest()
Md5Hex(bytes) ==
    HexOfState(Md5Blocks(Md5InitState, bytes, 0, (Md5PaddedLen(Len(bytes)) \div 64) - 1))

\* The UTF-8 bytes of a code point below 2048 (every character here is).
Utf8(code) ==
    IF code < 128 THEN <<code>> ELSE <<192 + (code \div 64), 128 + (code % 64)>>

\* text.encode(): the UTF-8 bytes of the characters in turn
EncodeText(text) ==
    Join(<<>>, SubSeq([i \in 1 .. Len(text) |-> Utf8(CharCode[text[i]])], 1, Len(text)))

\* The chunk texts store_document cuts a text into.
ChunkTextsOf(text, chunk_size) ==
    LET words == Split(text) IN
    {Join(<<" ">>, Slice(words, i * chunk_size, chunk_size)) :
        i \in 0 .. (((Len(words) + chunk_size - 1) \div chunk_size) - 1)}

\* The texts the stores here are given, and their digests computed once
\* (a digest takes 64 operations on every 64 bytes).
HashedTexts ==
    ChunkTexts
        \cup UNION {ChunkTextsOf(text, chunk_size) :
                        text \in Docs \cup ApiDocs, chunk_size \in ChunkSizes \cup {DefaultChunkSize}}
        \cup UNION {ChunkTextsOf(LargeDoc(k), DefaultChunkSize) : k \in ProseRepeats}
HashedDigests == [text \in HashedTexts |-> Md5Hex(EncodeText(text))]

\* hashlib.md5(text.encode()).hexdigest()
Md5HexDigest(text) ==
    IF text \in HashedTexts THEN HashedDigests[text] ELSE Md5Hex(EncodeText(text))

\* int(hex, 16), as a numeral
IntOfHex(hex) ==
    TrimZeros([i \in 1 .. (4 * Len(hex)) |->
        (HexValue[hex[Len(hex) - ((i - 1) \div 4)]] \div (2 ^ ((i - 1) % 4))) % 2])


(***************************************************************************)
(* GravitationalMemory                                                     *)
(***************************************************************************)
\* GravitationalMemory(compression_level)
NewMemory(compression_level) ==
    [compression_level |-> compression_level,
     storage |-> <<>>,
     index |-> <<>>,
     stats |-> [total_chunks |-> 0, total_bits |-> 0, indexed_keywords |-> 0]]

\* Mutant of IndexWord: only words longer than 4 characters are indexed.
IndexWordLong(index, chunk_id, word) ==
    LET word_clean == Strip(word, StripChars) IN
    IF Len(word_clean) > 4
    THEN DictSet(index, word_clean,
                 Append(IF DictHas(index, word_clean) THEN DictGet(index, word_clean) ELSE <<>>,
                        chunk_id))
    ELSE index

\* Mutant of IndexWord: the word's list is started afresh.
IndexWordReplaces(index, chunk_id, word) ==
    LET word_clean == Strip(word, StripChars) IN
    IF Len(word_clean) > 3 THEN DictSet(index, word_clean, <<chunk_id>>) ELSE index

\* One pass of the keyword loop of store_chunk for a word of text.lower().split().
IndexWord(index, chunk_id, word) ==
    LET word_clean == Strip(word, StripChars) IN
    IF Len(word_clean) > 3
    THEN DictSet(index, word_clean,
                 Append(IF DictHas(index, word_clean) THEN DictGet(index, word_clean) ELSE <<>>,
                        chunk_id))
    ELSE index

RECURSIVE IndexWords(_, _, _, _)
\* for word in words, from the k-th on: the first half of them, then the
\* rest (no length is negative: the test has the index computed at every call)
IndexWords(index, chunk_id, words, k) ==
    IF k > Len(words) \/ Len(index) < 0 THEN index
    ELSE IF k = Len(words) THEN IndexWord(index, chunk_id, words[k])
    ELSE LET h == (k + Len(words)) \div 2 IN
         IndexWords(IndexWords(index, chunk_id, SubSeq(words, 1, h), k),
                    chunk_id, words, h + 1)

\* store_chunk from line 119 on, text_hash being the integer of line 118.
StoreHashed(mem, chunk_id, text, text_hash, r) ==
    LET bit0 == NewBit(mem.compression_level)
        nslots == Len(bit0.states)
        bit1 == Encode(bit0, ModPow2(text_hash, nslots), [i \in 1 .. nslots |-> r])
        original == DecodeValue(bit1)
        bit2 == Propagate(Counted(bit1), DefaultDt)
        integrity == VerifyIntegrity(bit2, original)
        bit == Counted(bit2)
        index == IndexWords(mem.index, chunk_id, Split(Lower(text)), 1)
    IN  [memory |->
            [mem EXCEPT
                !.storage = DictSet(@, chunk_id,
                    [bit |-> bit, text |-> text, hash |-> text_hash, integrity |-> integrity]),
                !.index = index,
                !.stats = [total_chunks |-> @.total_chunks + 1,
                           total_bits |-> @.total_bits + 1,
                           indexed_keywords |-> Len(index)]],
         result |-> [chunk_id |-> chunk_id, states |-> nslots, integrity |-> integrity]]

\* store_chunk(chunk_id, text); r is the outcome of the random() calls of
\* its encode().  Gives the store afterwards and the returned dict.
StoreChunk(mem, chunk_id, text, r) ==
    StoreHashed(mem, chunk_id, text, IntOfHex(Md5HexDigest(text)), r)

\* The id store_document derives for a chunk: hexdigest()[:8]
IdLen == 8
ChunkId(chunk_text) == SubSeq(Md5HexDigest(chunk_text), 1, IdLen)

\* The number of passes of "for i in range(0, len(words), chunk_size)".
RangeCount(n, step) == (n + step - 1) \div step

RECURSIVE StoreChunksFrom(_, _, _, _, _, _)
\* One pass of the loop of store_document, for the chunk text and the id
\* derived from it, and the passes after it.
StorePass(mem, words, i, chunk_size, chunks, r, chunk_text, chunk_id) ==
    StoreChunksFrom(StoreChunk(mem, chunk_id, chunk_text, r).memory,
                    words, i + chunk_size, chunk_size, Append(chunks, chunk_id), r)

\* the loop of store_document from i on; chunks is the list built so far
\* (a store never counts fewer units than the chunks listed: the test has
\* the store computed at every pass)
StoreChunksFrom(mem, words, i, chunk_size, chunks, r) ==
    IF i >= Len(words) \/ mem.stats.total_bits < Len(chunks)
    THEN [memory |-> mem, chunks |-> chunks]
    ELSE LET chunk_text == Join(<<" ">>, Slice(words, i, chunk_size)) IN
         StorePass(mem, words, i, chunk_size, chunks, r, chunk_text, ChunkId(chunk_text))

\* original_size / compressed_size if compressed_size > 0 else 0, as a fraction
Ratio(original_size, compressed_size) ==
    IF compressed_size > 0
    THEN [num |-> original_size, den |-> compressed_size]
    ELSE [num |-> 0, den |-> 1]

\* Lines 170-180 of store_document: the sizes and the dict returned, done
\* being the store after the loop and the list of chunk ids the loop built.
DocumentResult(done, original_size) ==
    LET after == done.memory
        compressed_size ==
            after.stats.total_bits * (after.compression_level * after.compression_level)
    IN  [memory |-> after,
         chunk_ids |-> done.chunks,
         result |-> [chunks |-> Len(done.chunks),
                     bits |-> after.stats.total_bits,
                     compression_ratio |-> Ratio(original_size, compressed_size),
                     indexed_keywords |-> after.stats.indexed_keywords,
                     integrity |-> "100%"]]

\* store_document(text, chunk_size), chunk_size >= 1
StoreDocument(mem, text, chunk_size, r) ==
    DocumentResult(StoreChunksFrom(mem, Split(text), 0, chunk_size, <<>>, r), Len(text))

\* [w.lower().strip(...) for w in query.split() if len(w) > 3]
QueryWords(query) ==
    LET raw == Split(query)
        kept == SelectSeq(raw, LAMBDA w : Len(w) > 3)
    IN  [i \in 1 .. Len(kept) |-> Strip(Lower(kept[i]), StripChars)]

RECURSIVE ScoreIds(_, _, _)
\* for chunk_id in self.index[word]: scores[chunk_id] = scores.get(chunk_id, 0) + 1
ScoreIds(scores, ids, k) ==
    IF k > Len(ids) THEN scores
    ELSE ScoreIds(DictSet(scores, ids[k],
                          (IF DictHas(scores, ids[k]) THEN DictGet(scores, ids[k]) ELSE 0) + 1),
                  ids, k + 1)

RECURSIVE ScoreWords(_, _, _, _)
\* for word in query_words: if word in self.index: ...
ScoreWords(scores, index, query_words, k) ==
    IF k > Len(query_words) THEN scores
    ELSE ScoreWords(IF DictHas(index, query_words[k])
                    THEN ScoreIds(scores, DictGet(index, query_words[k]), 1)
                    ELSE scores,
                    index, query_words, k + 1)

\* Mutant of InsertDesc: ascending order.
RECURSIVE InsertAsc(_, _)
InsertAsc(sorted, item) ==
    IF sorted = <<>> THEN <<item>>
    ELSE IF sorted[1].value <= item.value
         THEN <<sorted[1]>> \o InsertAsc(Tail(sorted), item)
         ELSE <<item>> \o sorted

\* Mutant of InsertDesc: descending, but an item goes before its equals.
RECURSIVE InsertDescUnstable(_, _)
InsertDescUnstable(sorted, item) ==
    IF sorted = <<>> THEN <<item>>
    ELSE IF sorted[1].value > item.value
         THEN <<sorted[1]>> \o InsertDescUnstable(Tail(sorted), item)
         ELSE <<item>> \o sorted

\* Where a stable descending sort puts an item of value v into a sorted list:
\* after every item whose value is >= v.
RECURSIVE InsertDesc(_, _)
InsertDesc(sorted, item) ==
    IF sorted = <<>> THEN <<item>>
    ELSE IF sorted[1].value >= item.value
         THEN <<sorted[1]>> \o InsertDesc(Tail(sorted), item)
         ELSE <<item>> \o sorted

RECURSIVE SortedDescFrom(_, _, _)
SortedDescFrom(d, k, acc) ==
    IF k > Len(d) THEN acc ELSE SortedDescFrom(d, k + 1, InsertDesc(acc, d[k]))

\* sorted(scores, key=scores.get, reverse=True): the keys, by value
\* descending, equal values in the dict's order (the sort is stable).
SortedByScore(scores) == DictKeys(SortedDescFrom(scores, 1, <<>>))

\* s[:k]
Prefix(s, k) ==
    IF k >= 0 THEN SubSeq(s, 1, Min(k, Len(s)))
    ELSE SubSeq(s, 1, IF Len(s) + k > 0 THEN Len(s) + k ELSE 0)

\* Mutant of TopChunks: no fallback when nothing scores.
TopChunksNoFallback(mem, query, top_k) ==
    Prefix(SortedByScore(ScoreWords(<<>>, mem.index, QueryWords(query), 1)), top_k)

\* The local top_chunks of retrieve_relevant_context.
TopChunks(mem, query, top_k) ==
    LET scores == ScoreWords(<<>>, mem.index, QueryWords(query), 1) IN
    IF scores = <<>>
    THEN Prefix(DictKeys(mem.storage), top_k)
    ELSE Prefix(SortedByScore(scores), top_k)

\* retrieve_relevant_context(query, top_k)
Retrieve(mem, query, top_k) ==
    LET top_chunks == TopChunks(mem, query, top_k)
        present == SelectSeq(top_chunks, LAMBDA id : DictHas(mem.storage, id))
        context_parts == [i \in 1 .. Len(present) |-> DictGet(mem.storage, present[i]).text]
    IN  Join(<<"\n", "\n">>, context_parts)

(***************************************************************************)
(* A store used on its own.                                                *)
(***************************************************************************)
MemInit ==
    /\ \E L \in {-1, 0, 1, MaxLevel} : memory = NewMemory(L)
    /\ mret = [op |-> "new"]

MemStoreChunk(chunk_id, text, r) ==
    /\ UNCHANGED <<unit, encoded, uret, booster, ret, cli, writer, asking>>
    /\ memory.stats.total_chunks < MaxStores
    /\ \E done \in {StoreChunk(memory, chunk_id, text, r)} :
        /\ memory' = done.memory
        /\ mret' = [op |-> "store_chunk", text |-> text, result |-> done.result]

MemStoreDocument(text, chunk_size, r) ==
    /\ UNCHANGED <<unit, encoded, uret, booster, ret, cli, writer, asking>>
    /\ memory.stats.total_chunks + RangeCount(Len(Split(text)), chunk_size) <= MaxStores
    /\ \E done \in {StoreDocument(memory, text, chunk_size, r)} :
        /\ memory' = done.memory
        /\ mret' = [op |-> "store_document", text |-> text, chunk_size |-> chunk_size,
                    chunk_ids |-> done.chunk_ids, result |-> done.result]

MemRetrieve(query, top_k) ==
    /\ UNCHANGED <<unit, encoded, uret, booster, ret, cli, writer, asking>>
    /\ mret' = [op |-> "retrieve", query |-> query, top_k |-> top_k,
                top_chunks |-> TopChunks(memory, query, top_k),
                result |-> Retrieve(memory, query, top_k)]
    /\ UNCHANGED memory

MemNext ==
    \/ \E id \in ChunkIds, text \in ChunkTexts, r \in StoreDraws :
            MemStoreChunk(id, text, r)
    \/ \E text \in Docs, chunk_size \in ChunkSizes, r \in StoreDraws :
            MemStoreDocument(text, chunk_size, r)
    \/ \E query \in Queries, top_k \in TopKs : MemRetrieve(query, top_k)

(***************************************************************************)
(* store_chunk taken statement by statement, with a reader that may run    *)
(* between any two statements (the store has no lock).                     *)
(***************************************************************************)
\* Lines 115-126: the unit is built, encoded, propagated and verified;
\* nothing of the store is written yet.
ChunkBegin(chunk_id, text, r) ==
    /\ UNCHANGED <<unit, encoded, uret, booster, ret, cli, asking>>
    /\ writer.pc = "idle"
    /\ memory.stats.total_chunks < MaxStores
    /\ \E call \in {StoreChunk(memory, chunk_id, text, r)} :
            writer' = [pc |-> "store", chunk_id |-> chunk_id, text |-> text,
                       entry |-> DictGet(call.memory.storage, chunk_id),
                       result |-> call.result, words |-> <<>>, k |-> 0]
    /\ UNCHANGED <<memory, mret>>

\* Lines 129-137: self.storage[chunk_id] = {...}; words = text.lower().split()
ChunkStore ==
    /\ UNCHANGED <<unit, encoded, uret, booster, ret, cli, asking>>
    /\ writer.pc = "store"
    /\ memory' = [memory EXCEPT !.storage = DictSet(@, writer.chunk_id, writer.entry)]
    /\ writer' = [writer EXCEPT !.pc = "index", !.words = Split(Lower(writer.text)), !.k = 1]
    /\ UNCHANGED mret

\* Lines 138-143: one pass of the keyword loop
ChunkIndex ==
    /\ UNCHANGED <<unit, encoded, uret, booster, ret, cli, asking>>
    /\ writer.pc = "index"
    /\ writer.k <= Len(writer.words)
    /\ memory' = [memory EXCEPT
                    !.index = IndexWord(@, writer.chunk_id, writer.words[writer.k])]
    /\ writer' = [writer EXCEPT !.k = @ + 1]
    /\ UNCHANGED mret

\* Lines 146-154: the statistics are updated and the call returns
ChunkReturn ==
    /\ UNCHANGED <<unit, encoded, uret, booster, ret, cli, asking>>
    /\ writer.pc = "index"
    /\ writer.k > Len(writer.words)
    /\ memory' = [memory EXCEPT
                    !.stats = [total_chunks |-> @.total_chunks + 1,
                               total_bits |-> @.total_bits + 1,
                               indexed_keywords |-> Len(memory.index)]]
    /\ mret' = [op |-> "store_chunk", text |-> writer.text, result |-> writer.result]
    /\ writer' = [pc |-> "idle"]

\* store_document called while no store_chunk is under way
StepStoreDocument(text, chunk_size, r) ==
    /\ writer.pc = "idle"
    /\ MemStoreDocument(text, chunk_size, r)

\* query and top_k arguments of the reader's retrieve calls
ReaderQueries == {W_brown, W_the}
ReaderTopKs == {1, 2}

StepNext ==
    \/ \E id \in ChunkIds, text \in ChunkTexts, r \in StoreDraws : ChunkBegin(id, text, r)
    \/ ChunkStore
    \/ ChunkIndex
    \/ ChunkReturn
    \/ \E text \in Docs, chunk_size \in ChunkSizes, r \in StoreDraws :
            StepStoreDocument(text, chunk_size, r)
    \/ \E query \in ReaderQueries, top_k \in ReaderTopKs : MemRetrieve(query, top_k)

(***************************************************************************)
(* LLMRAGBooster and the module-level interface.                           *)
(***************************************************************************)
MaxCalls == 3          \* cap on the calls the command-line driver issues

DefaultLevel == 15
DeclaredStates == 1240

\* LLMRAGBooster(api_url, api_key, model, compression_level)
NewBooster(api_url, api_key, model, compression_level) ==
    [api_url |-> api_url,
     api_key |-> api_key,
     model |-> model,
     memory |-> NewMemory(compression_level),
     compression_level |-> compression_level]

\* get_stats()
GetStats(b) ==
    [chunks |-> b.memory.stats.total_chunks,
     bits |-> b.memory.stats.total_bits,
     indexed_keywords |-> b.memory.stats.indexed_keywords,
     compression_level |-> b.compression_level,
     states_per_bit |->
        (b.compression_level * (b.compression_level + 1) * (2 * b.compression_level + 1)) \div 6,
     integrity |-> "100%"]

RECURSIVE FloorLog2(_, _)
\* floor(log2(a / b)) for a, b > 0
FloorLog2(a, b) ==
    IF a >= 2 * b THEN FloorLog2(a, 2 * b) + 1
    ELSE IF a < b THEN FloorLog2(2 * a, b) - 1
    ELSE 0

RECURSIVE Pow2Mod(_, _)
\* (2 ** e) % m
Pow2Mod(e, m) == IF e = 0 THEN 1 % m ELSE (2 * Pow2Mod(e - 1, m)) % m

\* The float nearest to k / 200, k odd (a decimal ending in 5 at the third
\* place), compared with k / 200 itself: 1 above, -1 below, 0 equal.  The
\* float keeps 53 significant bits of k / 25, the nearest integer to
\* k * 2^e / 25 for the e that puts it in [2^52, 2^53); 8 is a power of 2.
MantissaBits == 53
FloatOfHalfway(k) ==
    LET e == (MantissaBits - 1) - FloorLog2(k, 25)
        r == ((k % 25) * Pow2Mod(e, 25)) % 25
    IN  IF r = 0 THEN 0 ELSE IF 2 * r > 25 THEN 1 ELSE -1

\* f"{x:.2f}" for the float x = ratio.num / ratio.den, as a count of
\* hundredths: the float is rounded to the nearest hundredth, and a float
\* that is exactly halfway to the even one.  A quotient that is not halfway
\* is on the same side as its float; a quotient that is halfway has a float
\* above, below or (when it is a multiple of 1/8) equal to it.
Hundredths(ratio) ==
    LET q == (100 * ratio.num) \div ratio.den
        rem == (100 * ratio.num) % ratio.den
        side == IF 2 * rem = ratio.den THEN FloatOfHalfway(2 * q + 1)
                ELSE IF 2 * rem > ratio.den THEN 1 ELSE -1
    IN  IF side > 0 \/ (side = 0 /\ q % 2 = 1) THEN q + 1 ELSE q

\* The prompt ask() builds with use_memory.
Prompt(context, question) ==
    <<"Context (from gravitational memory):\n">> \o context
        \o <<"\n\nQuestion: ">> \o question \o <<"\n\nAnswer based on the context above:">>

\* What ask() returns, as the list of the pieces of the returned str.
ErrorCallingLLM(detail) == <<"ERROR calling LLM: ", detail>>

\* str(data)
StrOf(data) == <<"str", data>>

\* Mutant of Extract: an exception of the boundary call is not caught.
ExtractUncaught(response) ==
    IF response.kind = "raise" THEN <<"raise", response.detail>>
    ELSE IF response.kind = "not_json" THEN <<"raise", "Expecting value">>
    ELSE StrOf(response.data)

\* The body of the try block of ask() once requests.post has returned or raised.
Extract(response) ==
    IF response.kind = "raise" THEN ErrorCallingLLM(response.detail)
    ELSE IF response.kind = "not_json" THEN ErrorCallingLLM("Expecting value")
    ELSE LET data == response.data IN
        IF "choices" \in DOMAIN data
        THEN IF Len(data.choices) = 0 THEN ErrorCallingLLM("list index out of range")
             ELSE <<data.choices[1].message.content>>
        ELSE IF "content" \in DOMAIN data
        THEN IF data.content_is_list
             THEN IF Len(data.content) = 0 THEN ErrorCallingLLM("list index out of range")
                  ELSE IF "text" \in DOMAIN data.content[1]
                       THEN <<data.content[1].text>>
                       ELSE StrOf(data)
             ELSE <<data.content>>
        ELSE IF "response" \in DOMAIN data THEN <<data.response>>
        ELSE IF "message" \in DOMAIN data
        THEN IF "content" \in DOMAIN data.message
             THEN <<data.message.content>>
             ELSE StrOf(data)
        ELSE StrOf(data)

\* Outcomes of requests.post(...) followed by response.json().
Responses ==
    <<[kind |-> "raise", detail |-> "timed out"],
     [kind |-> "not_json"],
     [kind |-> "json", data |-> [choices |-> <<[message |-> [content |-> "X"]]>>]],
     [kind |-> "json", data |-> [choices |-> <<>>]],
     [kind |-> "json", data |-> [content |-> "C", content_is_list |-> FALSE]],
     [kind |-> "json", data |-> [content |-> <<[text |-> "T"]>>, content_is_list |-> TRUE]],
     [kind |-> "json", data |-> [response |-> "Y"]],
     [kind |-> "json", data |-> [message |-> [content |-> "M"]]],
     [kind |-> "json", data |-> [detail |-> "unknown shape"]]>>

\* The request LLMRAGBooster.ask(question, use_memory=True, top_k) hands to
\* requests.post: the prompt is built from what the store holds at the call.
AskRequest(b, question, top_k) ==
    [url |-> b.api_url,
     authorization |-> IF b.api_key /= "" THEN <<"Bearer ", b.api_key>> ELSE <<>>,
     model |-> b.model,
     content |-> Prompt(Retrieve(b.memory, question, top_k), question)]

\* LLMRAGBooster.ask(question, use_memory=True, top_k): the request it
\* sends and the str it returns when the boundary answers with response.
BoosterAsk(b, question, top_k, response) ==
    [request |-> AskRequest(b, question, top_k), result |-> Extract(response)]

\* init(api_url, api_key, model_name)
DoInit(api_url, api_key, model_name) ==
    [booster |-> NewBooster(api_url, api_key, model_name, DefaultLevel),
     result |-> [success |-> TRUE, model |-> model_name,
                 compression_states |-> DeclaredStates]]

\* The booster after load_document has stored the document, and the dict
\* load returns (lines 338-344).
Loaded(b, done) ==
    [booster |-> [b EXCEPT !.memory = done.memory],
     result |-> [success |-> TRUE,
                 chunks |-> done.result.chunks,
                 compression_ratio |-> <<Hundredths(done.result.compression_ratio), "x">>,
                 indexed_keywords |-> done.result.indexed_keywords,
                 integrity |-> done.result.integrity]]

\* load(text) once _booster is set: load_document and the dict returned
LoadDocument(b, text, r) ==
    Loaded(b, StoreDocument(b.memory, text, DefaultChunkSize, r))

\* Mutant of DoLoad: a load before init creates the booster itself.
DoLoadCreates(b, text, r) ==
    IF b = None
    THEN LoadDocument(NewBooster("", "", "", DefaultLevel), text, r)
    ELSE LoadDocument(b, text, r)

\* load(text)
DoLoad(b, text, r) ==
    IF b = None
    THEN [booster |-> b, result |-> [error |-> "Not initialized. Call init() first."]]
    ELSE LoadDocument(b, text, r)

\* What ask returns when _booster is not set.
AskNotInitialized == <<"ERROR: Not initialized. Call init() first.">>

\* ask(question, top_k), from the call to the return
DoAsk(b, question, top_k, response) ==
    IF b = None
    THEN [booster |-> b, result |-> AskNotInitialized]
    ELSE [booster |-> b, result |-> BoosterAsk(b, question, top_k, response).result]

\* stats()
DoStats(b) ==
    IF b = None
    THEN [booster |-> b, result |-> [error |-> "Not initialized"]]
    ELSE [booster |-> b, result |-> GetStats(b)]

\* Arguments of the module-level functions.
ApiKeys == {"", "sk"}
Questions == {W_brown}

ApiInit(api_key) ==
    /\ UNCHANGED <<unit, encoded, uret, memory, mret, cli, writer, asking>>
    /\ \E done \in {DoInit("http://llm", api_key, "test-model")} :
        /\ booster' = done.booster
        /\ ret' = [op |-> "init", result |-> done.result]

ApiLoad(text, r) ==
    /\ UNCHANGED <<unit, encoded, uret, memory, mret, cli, writer, asking>>
    /\ booster /= None =>
        booster.memory.stats.total_chunks
            + RangeCount(Len(Split(text)), DefaultChunkSize) <= MaxStores
    /\ \E done \in {DoLoad(booster, text, r)} :
        /\ booster' = done.booster
        /\ ret' = [op |-> "load", text |-> text, result |-> done.result]

\* ask(question, top_k) up to the wait in requests.post (lines 346-351 and 252-279):
\* without a booster it returns at once; otherwise the prompt is built, the
\* request is sent and the call waits, while the module can serve other
\* callers.  One ask waits at a time.
ApiAskCall(question, top_k) ==
    /\ UNCHANGED <<unit, encoded, uret, memory, mret, cli, writer>>
    /\ asking = None
    /\ IF booster = None
       THEN /\ ret' = [op |-> "ask", question |-> question, boundary |-> "none",
                       result |-> AskNotInitialized]
            /\ UNCHANGED asking
       ELSE /\ asking' = [question |-> question,
                          request |-> AskRequest(booster, question, top_k)]
            /\ UNCHANGED ret
    /\ UNCHANGED booster

\* requests.post returns or raises and the waiting ask returns (lines
\* 281-298): it works on the response and its locals only.
ApiAskReturn(response) ==
    /\ UNCHANGED <<unit, encoded, uret, memory, mret, cli, writer>>
    /\ asking /= None
    /\ ret' = [op |-> "ask", question |-> asking.question, boundary |-> response.kind,
               result |-> Extract(response)]
    /\ asking' = None
    /\ UNCHANGED booster

ApiStats ==
    /\ UNCHANGED <<unit, encoded, uret, memory, mret, cli, writer, asking>>
    /\ \E done \in {DoStats(booster)} :
        /\ booster' = done.booster
        /\ ret' = [op |-> "stats", result |-> done.result]

\* load(large_doc) as the first load after an init (or before any init)
ApiLoadProse(k, r) ==
    /\ UNCHANGED <<unit, encoded, uret, memory, mret, cli, writer, asking>>
    /\ booster /= None => booster.memory.stats.total_chunks = 0
    /\ \E large_doc \in {LargeDoc(k)} :
        \E done \in {DoLoad(booster, large_doc, r)} :
            /\ booster' = done.booster
            /\ ret' = [op |-> "load", text |-> large_doc, result |-> done.result]

ApiNext ==
    \/ \E api_key \in ApiKeys : ApiInit(api_key)
    \/ \E text \in ApiDocs, r \in StoreDraws : ApiLoad(text, r)
    \/ \E question \in Questions : ApiAskCall(question, DefaultTopK)
    \/ \E k \in 1 .. Len(Responses) : ApiAskReturn(Responses[k])
    \/ ApiStats

\* One caller's session on a large document: init once, ...
ProseInit ==
    /\ booster = None
    /\ ApiInit("")

\* ... ask once the document is loaded, ...
ProseAskCall(question) ==
    /\ booster /= None
    /\ booster.memory.stats.total_chunks > 0
    /\ ApiAskCall(question, DefaultTopK)

\* ... with load, stats and the return of an ask as they come.
ProseNext ==
    \/ ProseInit
    \/ \E k \in ProseRepeats, r \in StoreDraws : ApiLoadProse(k, r)
    \/ \E question \in Questions : ProseAskCall(question)
    \/ \E k \in 1 .. Len(Responses) : ApiAskReturn(Responses[k])
    \/ ApiStats

(***************************************************************************)
(* The command-line entry point: one process per call.                     *)
(***************************************************************************)
\* python3 booster.py func json-args: the module is loaded, which sets
\* _booster = None, the function is dispatched and its result printed.
Main(func, args, r, response) ==
    LET loaded == None IN
    IF func = "init" THEN DoInit(args[1], args[2], args[3]).result
    ELSE IF func = "load" THEN DoLoad(loaded, args[1], r).result
    ELSE IF func = "ask" THEN DoAsk(loaded, args[1], DefaultTopK, response).result
    ELSE IF func = "stats" THEN DoStats(loaded).result
    ELSE [error |-> <<"Unknown function: ", func>>]

\* Calls issued as call_booster(function, args) does, an unknown function included.
CliCalls ==
    {[func |-> "init", args |-> <<"http://llm", "", "test-model">>],
     [func |-> "stats", args |-> <<>>],
     [func |-> "reset", args |-> <<>>]}
    \cup {[func |-> "load", args |-> <<text>>] : text \in ApiDocs}
    \cup {[func |-> "ask", args |-> <<question>>] : question \in Questions}

CallBooster(call, r, response) ==
    /\ UNCHANGED <<unit, encoded, uret, memory, mret, booster, ret, writer, asking>>
    /\ Len(cli.calls) < MaxCalls
    /\ cli' = [calls |-> Append(cli.calls, call),
               out |-> [op |-> call.func, result |-> Main(call.func, call.args, r, response)]]

CliNext == \E call \in CliCalls, r \in StoreDraws, k \in 1 .. Len(Responses) :
                CallBooster(call, r, Responses[k])

(***************************************************************************)
(* Properties of the encodable unit (SpecUnit).                            *)
(***************************************************************************)
SlotCount(L) == (L * (L + 1) * (2 * L + 1)) \div 6

\* C1: at every level L > 0, once encode(v) has run (on a fresh or a used
\* unit), slot i holds bit i of v, least-significant first, for every slot,
\* and a decode() returns v mod 2^slot_count: higher bits are dropped and
\* nothing of an earlier encode remains.
C1_EncodeDecodeRoundTrip ==
    (unit.n_max > 0 /\ encoded >= 0) =>
        /\ \A i \in 1 .. Len(unit.states) :
                unit.states[i].occupied = (encoded \div (2 ^ (i - 1))) % 2
        /\ uret.op = "decode" => uret.value = BitsOf(encoded % (2 ^ Len(unit.states)))

\* A used unit of level 2 (5 slots) was re-encoded with 37 and decoded to 5.
C1_Witness ==
    /\ unit.n_max = 2
    /\ encoded = 37
    /\ unit.operation_count >= 3
    /\ uret.op = "decode"
    /\ uret.value = BitsOf(5)

C2_PropagateStep ==
    uret'.op = "propagate" =>
        /\ Len(unit'.states) = Len(unit.states)
        /\ \A i \in 1 .. Len(unit.states) :
                unit'.states[i].occupied = unit.states[i].occupied

C2_DecodeVerifyStep ==
    (encoded >= 0 /\ encoded < 2 ^ Len(unit.states) /\ encoded' = encoded) =>
        /\ uret'.op = "decode" => uret'.value = BitsOf(encoded)
        /\ (uret'.op = "verify" /\ uret'.value = encoded) => uret'.ok

\* C2: after encode(original) with 0 <= original < 2^slot_count, no
\* propagate call (whatever dt) changes a slot's occupied flag, and every
\* later decode() returns original and every verify(original) is true,
\* however propagate, decode and verify calls are interleaved.
C2_PropagatePreservesValue == [][C2_PropagateStep /\ C2_DecodeVerifyStep]_vars

\* verify(original) came back true after at least one propagate moved a phase.
C2_Witness ==
    /\ encoded = 5
    /\ unit.n_max = 2
    /\ uret.op = "verify" /\ uret.value = encoded /\ uret.ok
    /\ unit.operation_count = 4
    /\ unit.states[1].phase \notin RandomPhases

(***************************************************************************)
(* Properties of the state bank and of the numbers reported (SpecApi).     *)
(***************************************************************************)
\* (n, l, m) of slot a comes before that of slot b: n, then l, then m.
TripleBefore(a, b) ==
    \/ a.n < b.n
    \/ a.n = b.n /\ a.l < b.l
    \/ a.n = b.n /\ a.l = b.l /\ a.m < b.m

\* The slots are exactly the valid triples of level L, each once, in order.
BankShape(slots, L) ==
    /\ Len(slots) = SlotCount(L)
    /\ \A i \in 1 .. Len(slots) :
        /\ 1 <= slots[i].n /\ slots[i].n <= L
        /\ 0 <= slots[i].l /\ slots[i].l < slots[i].n
        /\ -slots[i].l <= slots[i].m /\ slots[i].m <= slots[i].l
    /\ \A i \in 1 .. (Len(slots) - 1) : TripleBefore(slots[i], slots[i + 1])

C3_Banks ==
    /\ \A L \in (1 .. MaxLevel) \cup {DefaultLevel} : BankShape(StateBank(L), L)
    /\ SlotCount(DefaultLevel) = 1240

\* C3: for every level L >= 1 the state bank holds exactly L(L+1)(2L+1)/6
\* slots, one per valid (n, l, m), without duplicates, in ascending n, l, m
\* order; that is 1240 for level 15; and the count init declares and the
\* states_per_bit stats reports equal the number of slots of every unit
\* the booster's store has built.
C3_SlotCount ==
    /\ C3_Banks
    /\ ret.op = "init" => ret.result.compression_states = SlotCount(DefaultLevel)
    /\ (ret.op = "stats" /\ booster /= None) =>
            ret.result.states_per_bit = SlotCount(booster.memory.compression_level)
    /\ booster /= None =>
        \A k \in 1 .. Len(booster.memory.storage) :
            LET bit == booster.memory.storage[k].value.bit IN
            /\ BankShape(bit.states, bit.n_max)
            /\ Len(bit.states) = DeclaredStates
            /\ Len(bit.states) = GetStats(booster).states_per_bit

\* stats was asked of a booster whose store holds two units of 1240 slots.
C3_Witness ==
    /\ booster /= None
    /\ ret.op = "stats"
    /\ ret.result.states_per_bit = 1240
    /\ Len(booster.memory.storage) = 2
    /\ Len(booster.memory.storage[2].value.bit.states) = 1240

(***************************************************************************)
(* Properties of the fragment store and of retrieval (Spec).               *)
(***************************************************************************)
\* C4: a store of a non-positive level rejects every fragment with an
\* InvalidConfiguration error: it never holds a fragment, and no unit
\* without slots is ever built.
C4_NonPositiveLevelRejected ==
    memory.compression_level <= 0 =>
        /\ Len(memory.storage) = 0
        /\ mret.op = "store_chunk" => mret.result = [error |-> "InvalidConfiguration"]

\* The ids of the stored fragments, and a stored fragment's text and place.
StoredIds(mem) == {mem.storage[k].key : k \in 1 .. Len(mem.storage)}
TextOf(mem, id) == DictGet(mem.storage, id).text
StorePos(mem, id) == CHOOSE k \in 1 .. Len(mem.storage) : mem.storage[k].key = id
TextsOf(mem, ids) == [i \in 1 .. Len(ids) |-> TextOf(mem, ids[i])]
BlankLine == <<"\n", "\n">>

\* The index list of the p-th query word (empty when the word is not indexed).
HitList(mem, query, p) ==
    LET word == QueryWords(query)[p] IN
    IF DictHas(mem.index, word) THEN DictGet(mem.index, word) ELSE <<>>

\* The hits of fragment id: <<p, q>> when the q-th entry of the index list
\* of the p-th query word is id.
Hits(mem, query, id) ==
    UNION {{<<p, q>> : q \in {q \in 1 .. Len(HitList(mem, query, p)) :
                                    HitList(mem, query, p)[q] = id}} :
           p \in 1 .. Len(QueryWords(query))}

Score(mem, query, id) == Cardinality(Hits(mem, query, id))
Matching(mem, query) == {id \in StoredIds(mem) : Score(mem, query, id) > 0}
AnyWordIndexed(mem, query) ==
    \E p \in 1 .. Len(QueryWords(query)) : DictHas(mem.index, QueryWords(query)[p])

\* C5: when some query word is indexed, retrieve returns the texts of
\* exactly min(top_k, number of matching fragments) fragments, all of them
\* matching and distinct, in non-increasing score order and none scoring
\* below a matching fragment left out, joined by a blank line; the score of
\* a fragment is its number of hits over all query word occurrences.
C5_TopKByScore ==
    (mret.op = "retrieve" /\ AnyWordIndexed(memory, mret.query)) =>
        LET top == mret.top_chunks
            score(id) == Score(memory, mret.query, id)
            matching == Matching(memory, mret.query)
        IN  /\ Len(top) = Min(mret.top_k, Cardinality(matching))
            /\ \A i \in 1 .. Len(top) : top[i] \in matching
            /\ \A i, j \in 1 .. Len(top) :
                    i < j => (top[i] /= top[j] /\ score(top[i]) >= score(top[j]))
            /\ \A id \in matching :
                    (\A i \in 1 .. Len(top) : top[i] /= id) =>
                        \A i \in 1 .. Len(top) : score(top[i]) >= score(id)
            /\ mret.result = Join(BlankLine, TextsOf(memory, top))

\* top_k = 1 picked the better of two matching fragments with unequal scores.
C5_Witness ==
    /\ mret.op = "retrieve"
    /\ mret.top_k = 1
    /\ Len(mret.top_chunks) = 1
    /\ Cardinality(Matching(memory, mret.query)) = 2
    /\ \E id \in Matching(memory, mret.query) :
            Score(memory, mret.query, id) < Score(memory, mret.query, mret.top_chunks[1])

\* C6 as stated: fragments with equal score come back in store order,
\* whatever the order of the words of the query.
C6_TiesInStoreOrder ==
    (mret.op = "retrieve" /\ AnyWordIndexed(memory, mret.query)) =>
        \A i, j \in 1 .. Len(mret.top_chunks) :
            (i < j /\ Score(memory, mret.query, mret.top_chunks[i])
                        = Score(memory, mret.query, mret.top_chunks[j])) =>
                StorePos(memory, mret.top_chunks[i]) < StorePos(memory, mret.top_chunks[j])

\* The first hit of a matching fragment: the least <<p, q>>, p first.
HitBefore(a, b) == a[1] < b[1] \/ (a[1] = b[1] /\ a[2] < b[2])
FirstHit(mem, query, id) ==
    CHOOSE h \in Hits(mem, query, id) :
        \A g \in Hits(mem, query, id) : g = h \/ HitBefore(h, g)

\* C6 as amended: fragments with equal score come back in the order of
\* their first hits, the query words taken left to right and each word's
\* index list in append order.
C6_TiesInFirstHitOrder ==
    (mret.op = "retrieve" /\ AnyWordIndexed(memory, mret.query)) =>
        \A i, j \in 1 .. Len(mret.top_chunks) :
            (i < j /\ Score(memory, mret.query, mret.top_chunks[i])
                        = Score(memory, mret.query, mret.top_chunks[j])) =>
                HitBefore(FirstHit(memory, mret.query, mret.top_chunks[i]),
                          FirstHit(memory, mret.query, mret.top_chunks[j]))

\* Two fragments of equal score came back with the later stored one first.
C6_Witness ==
    /\ mret.op = "retrieve"
    /\ Len(mret.top_chunks) = 2
    /\ Score(memory, mret.query, mret.top_chunks[1])
            = Score(memory, mret.query, mret.top_chunks[2])
    /\ StorePos(memory, mret.top_chunks[1]) > StorePos(memory, mret.top_chunks[2])

\* C7: when no query word is indexed (a query without a token longer than
\* 3 characters included), retrieve returns the texts of the first top_k
\* fragments in store insertion order, joined by a blank line; with no
\* fragment stored it returns the empty string for every query.
C7_Fallback ==
    mret.op = "retrieve" =>
        /\ ~AnyWordIndexed(memory, mret.query) =>
            /\ mret.top_chunks
                    = SubSeq(DictKeys(memory.storage), 1, Min(mret.top_k, Len(memory.storage)))
            /\ mret.result = Join(BlankLine, TextsOf(memory, mret.top_chunks))
        /\ Len(memory.storage) = 0 => mret.result = <<>>

\* The query "the" over two stored fragments with top_k = 1 gave the first.
C7_Witness ==
    /\ mret.op = "retrieve"
    /\ mret.query = W_the
    /\ mret.top_k = 1
    /\ Len(memory.storage) = 2
    /\ mret.top_chunks = <<memory.storage[1].key>>
    /\ mret.result = memory.storage[1].value.text

C8_Step ==
    mret'.op = "store_document" =>
        LET text == mret'.text
            chunk_size == mret'.chunk_size
            words == Split(text)
            ids == mret'.chunk_ids
            k == mret'.result.chunks
        IN  /\ k = Len(ids)
            /\ k * chunk_size >= Len(words) /\ (k - 1) * chunk_size < Len(words)
            /\ \A j \in 1 .. k :
                /\ DictHas(memory'.storage, ids[j])
                /\ Split(TextOf(memory', ids[j]))
                        = SubSeq(words, (j - 1) * chunk_size + 1, Min(j * chunk_size, Len(words)))
            /\ memory'.stats.total_chunks = memory.stats.total_chunks + k
            /\ text = <<>> =>
                    (k = 0 /\ mret'.result.compression_ratio.num = 0 /\ memory' = memory)

\* C8: store_document stores the consecutive groups of chunk_size words of
\* the text, one store_chunk call per group in order: ceil(words/chunk_size)
\* chunks are reported (k for chunk_size*k words), each of chunk_size words
\* but possibly the last, none empty; the empty text gives chunks 0 and
\* ratio 0 and leaves the store, the index and the statistics as they were.
C8_StoreDocumentChunks == [][C8_Step]_vars

\* A document of 2*2 words was stored with chunk_size 2 as 2 chunks.
C8_Witness ==
    /\ mret.op = "store_document"
    /\ mret.chunk_size = 2
    /\ Len(Split(mret.text)) = 4
    /\ mret.result.chunks = 2
    /\ \A j \in 1 .. 2 : Len(Split(TextOf(memory, mret.chunk_ids[j]))) = 2

\* The keywords of a text: its lowercased, punctuation-stripped tokens
\* longer than 3 characters.
KeywordsOf(text) ==
    LET words == Split(Lower(text)) IN
    {w \in {Strip(words[i], StripChars) : i \in 1 .. Len(words)} : Len(w) > 3}

\* The index list of a word (empty when the word is not indexed).
ListOf(mem, word) == IF DictHas(mem.index, word) THEN DictGet(mem.index, word) ELSE <<>>
IsPrefix(s, t) == Len(s) <= Len(t) /\ SubSeq(t, 1, Len(s)) = s

C13_Step ==
    /\ \A k \in 1 .. Len(memory.index) :
            /\ DictHas(memory'.index, memory.index[k].key)
            /\ IsPrefix(memory.index[k].value, ListOf(memory', memory.index[k].key))
    /\ (mret'.op = "store_chunk" /\ DictHas(memory.storage, mret'.result.chunk_id)) =>
            LET id == mret'.result.chunk_id IN
            /\ TextOf(memory', id) = mret'.text
            /\ \A w \in KeywordsOf(TextOf(memory, id)) :
                /\ \E q \in 1 .. Len(ListOf(memory', w)) : ListOf(memory', w)[q] = id
                /\ (w \notin KeywordsOf(mret'.text)
                        /\ \A q \in 1 .. Len(ListOf(memory', w)) : ListOf(memory', w)[q] = id) =>
                    Retrieve(memory', w, 1) = mret'.text

\* C13: at every step of a store (store_chunk, store_document, retrieve)
\* every indexed word stays indexed and its id list before the step is a
\* prefix of its list after it; a store_chunk of an id already stored
\* replaces the stored text and leaves the id in the lists of the old
\* text's keywords, so that a query for a keyword only the old text had,
\* and matching that fragment alone, returns the new text.
C13_IndexOnlyGrows == [][C13_Step]_vars

\* Fragment a was stored as "lazy brown" and stored again as "quick brown":
\* "lazy" still lists it, and a query for it returns "quick brown".
C13_Witness ==
    /\ mret.op = "store_chunk"
    /\ memory.stats.total_chunks = 2
    /\ Len(memory.storage) = 1
    /\ memory.storage[1].value.text = T_quick_brown
    /\ ListOf(memory, W_lazy) = <<memory.storage[1].key>>
    /\ Retrieve(memory, W_lazy, 1) = T_quick_brown

\* Every id of an index list is a stored fragment, and every stored
\* fragment is in the index list of every keyword of its text.
Agree(mem) ==
    /\ \A k \in 1 .. Len(mem.index) :
            \A q \in 1 .. Len(mem.index[k].value) :
                mem.index[k].value[q] \in StoredIds(mem)
    /\ \A id \in StoredIds(mem) :
            \A w \in KeywordsOf(TextOf(mem, id)) :
                \E q \in 1 .. Len(ListOf(mem, w)) : ListOf(mem, w)[q] = id

\* C14: whenever no store_chunk is under way (at every operation boundary)
\* the store and the index agree: every id in an index list is a key of
\* the store, and every stored fragment is listed under every keyword of
\* its current text.  (Between the statements of a store_chunk they need
\* not: a reader then finds the fragment stored and not yet indexed.)
C14_StoreIndexAgree == writer.pc = "idle" => Agree(memory)

\* A reader ran while "quick brown" was stored and not yet indexed: its
\* query for "brown" got the earlier fragment only.
C14_Witness ==
    /\ writer.pc = "index"
    /\ writer.text = T_quick_brown
    /\ DictHas(memory.storage, writer.chunk_id)
    /\ ~Agree(memory)
    /\ mret.op = "retrieve"
    /\ mret.query = W_brown
    /\ mret.top_k = 2
    /\ Len(memory.storage) = 2
    /\ mret.top_chunks = <<memory.storage[1].key>>
    /\ mret.top_chunks = TopChunks(memory, mret.query, mret.top_k)
    /\ memory.storage[1].key /= writer.chunk_id

\* C15: after any sequence of store_chunk and store_document calls the
\* statistics are a faithful cache of the structures: total_chunks is the
\* number of fragments the store holds, total_bits the number of units it
\* holds (one per fragment held), and indexed_keywords the number of
\* distinct words of the index, also when two chunks of a document have
\* the same text or an id is stored twice.
C15_StatsFaithfulCache ==
    /\ memory.stats.total_chunks = Cardinality(StoredIds(memory))
    /\ memory.stats.total_bits = Len(memory.storage)
    /\ memory.stats.indexed_keywords
            = Cardinality({memory.index[k].key : k \in 1 .. Len(memory.index)})

\* The query tokenized by the rule of indexing: lowercase, strip, and keep
\* the tokens whose stripped length is > 3.
IndexRuleWords(query) ==
    LET words == Split(Lower(query))
        clean == [i \in 1 .. Len(words) |-> Strip(words[i], StripChars)]
    IN  SelectSeq(clean, LAMBDA w : Len(w) > 3)

\* retrieve with the query tokenized by the rule of indexing.
IndexRuleTopChunks(mem, query, top_k) ==
    LET scores == ScoreWords(<<>>, mem.index, IndexRuleWords(query), 1) IN
    IF scores = <<>>
    THEN Prefix(DictKeys(mem.storage), top_k)
    ELSE Prefix(SortedByScore(scores), top_k)

IndexRuleRetrieve(mem, query, top_k) ==
    Join(BlankLine, TextsOf(mem, IndexRuleTopChunks(mem, query, top_k)))

\* C16: for every store state, query and top_k, retrieve (which tests the
\* length of the raw token and strips afterwards) returns what a retrieve
\* tokenizing the query by the rule of indexing (lowercase, strip, then
\* keep lengths > 3) returns: the same fragments in the same order and the
\* same text.
C16_QueryTokenizedAsIndex ==
    mret.op = "retrieve" =>
        /\ mret.top_chunks = IndexRuleTopChunks(memory, mret.query, mret.top_k)
        /\ mret.result = IndexRuleRetrieve(memory, mret.query, mret.top_k)

(***************************************************************************)
(* Properties of the module-level interface (SpecApi, SpecCli).            *)
(***************************************************************************)
C9_Step ==
    /\ (booster = None /\ ret'.op \in {"load", "ask", "stats"}) =>
        /\ booster' = None
        /\ ret'.op = "load" => ret'.result = [error |-> "Not initialized. Call init() first."]
        /\ ret'.op = "ask" => ret'.result = <<"ERROR: Not initialized. Call init() first.">>
        /\ ret'.op = "stats" => ret'.result = [error |-> "Not initialized"]
    /\ ret'.op = "init" =>
        /\ booster' /= None
        /\ booster'.memory.storage = <<>>
        /\ booster'.memory.index = <<>>
        /\ booster'.memory.stats = [total_chunks |-> 0, total_bits |-> 0, indexed_keywords |-> 0]
    /\ ret'.op \in {"ask", "stats"} => booster' = booster
    /\ (ret'.op = "stats" /\ booster /= None) =>
        /\ ret'.result.chunks = booster.memory.stats.total_chunks
        /\ ret'.result.bits = booster.memory.stats.total_bits
        /\ ret'.result.indexed_keywords = booster.memory.stats.indexed_keywords
    /\ (ret.op = "init" /\ ret'.op = "stats") =>
        (ret'.result.chunks = 0 /\ ret'.result.bits = 0 /\ ret'.result.indexed_keywords = 0)

\* C9: before init, load, ask and stats each return their "Not initialized"
\* error and leave the module without a booster; every init, first or
\* repeated, leaves an empty store, ask and stats do not touch it, so stats
\* after an init and before any load reports zero chunks, units and keywords.
C9_NotInitialized == [][C9_Step]_vars

\* load was called before init and returned the error.
C9_Witness ==
    /\ booster = None
    /\ ret.op = "load"
    /\ ret.result = [error |-> "Not initialized. Call init() first."]

\* C10: through the command line, one process per call, a load issued after
\* an init returns a success result with chunks, compression_ratio and
\* integrity "100%", and a stats issued after init and load reports
\* indexed keywords.
C10_StateVisibleAcrossCalls ==
    LET n == Len(cli.calls) IN
    /\ (n >= 2 /\ cli.calls[n].func = "load"
            /\ \E i \in 1 .. (n - 1) : cli.calls[i].func = "init") =>
        /\ {"success", "chunks", "compression_ratio", "integrity"} \subseteq DOMAIN cli.out.result
        /\ cli.out.result.success
        /\ cli.out.result.integrity = "100%"
    /\ (n >= 3 /\ cli.calls[n].func = "stats"
            /\ \E i, j \in 1 .. (n - 1) :
                    i < j /\ cli.calls[i].func = "init" /\ cli.calls[j].func = "load") =>
        "indexed_keywords" \in DOMAIN cli.out.result

C12_Step ==
    /\ asking' /= asking =>
        /\ booster' = booster
        /\ booster /= None
        /\ GetStats(booster') = GetStats(booster)
        /\ \A query \in Queries, top_k \in TopKs \cup {DefaultTopK} :
                Retrieve(booster'.memory, query, top_k)
                    = Retrieve(booster.memory, query, top_k)
    /\ (asking /= None /\ asking' = None) =>
        /\ ret'.op = "ask"
        /\ ret'.question = asking.question
        /\ ret'.boundary \in {"raise", "not_json"} => ret'.result[1] = "ERROR calling LLM: "
    /\ ret'.op = "ask" =>
        /\ booster' = booster
        /\ Len(ret'.result) >= 1
        /\ ret'.result[1] /= "raise"

\* C12: whatever the completion boundary does, ask returns a value (it
\* never raises) and neither its step up to the boundary call nor its step
\* after it changes the booster: the store, the index and the statistics are
\* left as they were, so stats and every retrieve give after the step what
\* they gave before it; when the boundary call throws, times out or returns
\* non-JSON, what ask returns starts with "ERROR calling LLM: ".
C12_AskNeverModifies == [][C12_Step]_vars

\* An ask over a loaded store whose boundary call timed out gave the error string.
C12_Witness ==
    /\ booster /= None
    /\ Len(booster.memory.storage) >= 1
    /\ asking = None
    /\ ret.op = "ask"
    /\ ret.question = W_brown
    /\ ret.boundary = "raise"
    /\ ret.result = <<"ERROR calling LLM: ", "timed out">>

\* C11: loading a document of thousands of words of prose (the 5100-word
\* document of the compression test included) into a freshly initialised
\* booster, at level 15 and chunk size 200, reports a compression_ratio
\* greater than 10: len(text) > 10 * total_units * 15^2.
C11_LargeDocumentRatio ==
    (ret.op = "load" /\ booster /= None /\ Len(Split(ret.text)) >= 2000) =>
        /\ ret.result.compression_ratio[1] > 10 * 100
        /\ Len(ret.text)
                > 10 * booster.memory.stats.total_bits * (DefaultLevel * DefaultLevel)

(***************************************************************************)
(* Specifications.                                                         *)
(***************************************************************************)
UnitIdle == unit = NewBit(1) /\ encoded = -1 /\ uret = [op |-> "new", value |-> 0, ok |-> TRUE]
MemIdle == memory = NewMemory(1) /\ mret = [op |-> "new"]
ApiIdle == booster = None /\ ret = [op |-> "none"] /\ asking = None
CliIdle == cli = [calls |-> <<>>, out |-> [op |-> "none"]]
WriterIdle == writer = [pc |-> "idle"]

\* A GravitationalBit driven through its methods.
InitUnit == UnitInit /\ MemIdle /\ ApiIdle /\ CliIdle /\ WriterIdle
SpecUnit == InitUnit /\ [][UnitNext]_vars

\* A GravitationalMemory driven through its methods.
Init == MemInit /\ UnitIdle /\ ApiIdle /\ CliIdle /\ WriterIdle
Spec == Init /\ [][MemNext]_vars

\* A GravitationalMemory whose store_chunk runs statement by statement
\* while a reader retrieves.
SpecSteps == Init /\ [][StepNext]_vars

\* The module-level functions called within one process.
InitApi == ApiIdle /\ UnitIdle /\ MemIdle /\ CliIdle /\ WriterIdle
SpecApi == InitApi /\ [][ApiNext]_vars

\* The module-level functions called within one process on the document of
\* the compression test (test.py itself starts one process per call, which
\* SpecCli models).
SpecProse == InitApi /\ [][ProseNext]_vars

\* The module driven from the command line, one process per call.
InitCli == CliIdle /\ UnitIdle /\ MemIdle /\ ApiIdle /\ WriterIdle
SpecCli == InitCli /\ [][CliNext]_vars

====
